---- MODULE Spec2Model ----
(***************************************************************************)
(* Model of src/src/karta_analyze_src.py: the File Locator (locateFiles),  *)
(* the Cross-Reference Resolver (resolveUnknowns) and the library          *)
(* orchestrator (analyzeLibrary) with its archive / directory fallback.    *)
(*                                                                         *)
(* File names and paths are sequences of one-character strings, so that    *)
(* str.endswith, the ' ' in path tests and os.path.join are computed.      *)
(***************************************************************************)
EXTENDS Integers, Sequences, FiniteSets, TLC

\* Cap on the iterations of the scan loop `while not finished_scan`.
MaxRounds == 3

\* Largest number of FunctionContexts of a library handed to the resolver alone.
MaxCtx == 2

\* Number of times in a row the resolver is run on such a library.
MaxResolves == 2

-----------------------------------------------------------------------------
(* Strings *)

Range(s) == {s[i] : i \in 1..Len(s)}

\* str.endswith
EndsWith(s, t) ==
    /\ Len(s) >= Len(t)
    /\ SubSeq(s, Len(s) - Len(t) + 1, Len(s)) = t

\* ' ' in s
HasSpace(s) == \E i \in 1..Len(s) : s[i] = " "

\* os.path.abspath(os.path.join(root, name)) for an absolute, normalised root
JoinPath(root, name) == root \o <<"/">> \o name

\* str.lower() on the answers an operator types
Lower(s) ==
    CASE s = "Y"   -> "y"
      [] s = "N"   -> "n"
      [] s = "YES" -> "yes"
      [] OTHER     -> s

\* number of occurrences of x in the list
RECURSIVE Count(_, _)
Count(list, x) ==
    IF list = <<>> THEN 0
    ELSE (IF Head(list) = x THEN 1 ELSE 0) + Count(Tail(list), x)

\* a faulty list.remove(x): the name stays in the list
ListRemoveKeeps(list, x) == list

\* list.remove(x): drops the first occurrence of x
RECURSIVE ListRemove(_, _)
ListRemove(list, x) ==
    IF list = <<>> THEN <<>>
    ELSE IF Head(list) = x THEN Tail(list)
    ELSE <<Head(list)>> \o ListRemove(Tail(list), x)

-----------------------------------------------------------------------------
(* The inputs: file system, archives, environment *)

aO == <<"a", ".", "o">>
bO == <<"b", ".", "o">>
mO == <<"m", ".", "o">>
rX == <<"r", ".", "x">>
cO == <<"c", "o">>

\* bin_suffix of line 95 for a POSIX build (isWindows() is False)
bin_suffix == <<"o">>

D1 == <<"/", "l">>
D2 == <<"/", "l", "/", "s", " ", "d">>
Dirs == {D1, D2}

\* sub-directories of each directory, in os.walk order
SubDirs(d) == IF d = D1 THEN <<D2>> ELSE <<>>

\* the roots os.walk(bin_dir) visits, top-down
RECURSIVE Walk(_)
RECURSIVE WalkAll(_)
Walk(d) == <<d>> \o WalkAll(SubDirs(d))
WalkAll(ds) == IF ds = <<>> THEN <<>> ELSE Walk(Head(ds)) \o WalkAll(Tail(ds))

\* the disks: every directory holds some of the object files; the library's
\* top directory also holds two files that are no object files
Disks ==
    {[d \in Dirs |-> IF d = D1 THEN s1 \cup {rX, cO} ELSE s2] :
        s1 \in SUBSET {aO, bO}, s2 \in SUBSET {aO, bO}}

\* member lists getArchiveFiles can return
ArchiveChoices ==
    {<<aO>>, <<aO, bO>>, <<mO>>, <<aO, aO>>, <<rX, bO>>}

PairChoices == Dirs \X ArchiveChoices

\* the (bin directory, archive) pairs of the command line: one pair or two
PairLists ==
    {<<p>> : p \in PairChoices} \cup {<<p, q>> : p \in PairChoices, q \in PairChoices}

ScriptPaths == {<<"/", "k">>, <<"/", "k", " ">>}
DisasNames == {"IDA", "radare"}
Answers == {"y", "Y", "n", "yes"}
Verdicts == {"none", "str", "const"}

\* the function descriptors the disassembler writes into the state file of a
\* compiled file
Func(n, uf, ufp, cl) ==
    [name |-> n, unknown_funcs |-> uf, unknown_fptrs |-> ufp, calls |-> cl]

FileFuncs(path) ==
    CASE path = JoinPath(D1, aO) ->
            <<Func("foo", {"bar", "ext"}, {"baz", "ext"}, {}),
              Func("qux", {}, {"ext"}, {"foo"})>>
      [] path = JoinPath(D1, bO) -> <<>>
      [] path = JoinPath(D2, aO) -> <<Func("bar", {"foo", "baz"}, {}, {})>>
      [] path = JoinPath(D2, bO) -> <<Func("baz", {"ext"}, {"foo", "bar"}, {"ext"})>>
      [] OTHER -> <<>>

-----------------------------------------------------------------------------
VARIABLES
    disas_name,         \* disas_cmd.name()
    SCRIPT_PATH,
    bin_dirs,
    compiled_ars,       \* per pair, what getArchiveFiles returns for the archive
    disk,               \* directory -> names of the files in it
    pc,
    ignore_archive,
    finished_scan,
    index,              \* position of the for loop of line 91 (1-based)
    file_list,          \* locateFiles: [none, list], the filter argument
    loc_roots,          \* locateFiles: roots os.walk still has to visit
    loc_root,           \* locateFiles: current root
    loc_pending,        \* locateFiles: names the inner for loop still yields
    archive_files,      \* list(locateFiles(...)): the (path, name) pairs yielded so far
    src_functions_list,
    src_functions_ctx,
    src_file_mappings,  \* ordered mapping: sequence of [file, funcs]
    str_anchors,
    const_anchors,
    anchors_list,
    anchors_files,
    new_path,           \* the lowered answer of line 147
    exit_code,
    artifact,           \* the file config_name: [written, anchors, files]
    \* observations of the run
    rounds,             \* iterations of the while loop begun
    prompts,            \* calls of raw_input
    analyzed,           \* paths analyzeFile was called on, in order
    resolve_inputs,     \* src_functions_ctx at the entry of each call of resolveUnknowns
    file_pos,           \* position of the for loop of line 109 in archive_files (1-based)
    verdicts,           \* what anchor.isAnchor answered, per function index
    open_failed,        \* the open of line 122 has raised
    success_reported    \* main has logged 'Finished Successfully' (line 284)

vars == <<disas_name, SCRIPT_PATH, bin_dirs, compiled_ars, disk, pc, ignore_archive,
          finished_scan, index, file_list, loc_roots, loc_root, loc_pending,
          archive_files, src_functions_list, src_functions_ctx, src_file_mappings,
          str_anchors, const_anchors, anchors_list, anchors_files, new_path,
          exit_code, artifact, rounds, prompts, analyzed, resolve_inputs,
          file_pos, verdicts, open_failed, success_reported>>

inputVars == <<disas_name, SCRIPT_PATH, bin_dirs, compiled_ars, disk>>
locVars == <<file_list, loc_roots, loc_root, loc_pending, archive_files, file_pos>>
flagVars == <<ignore_archive, finished_scan, index, new_path>>
obsVars == <<rounds, prompts, analyzed, resolve_inputs>>
storeVars == <<src_functions_list, src_functions_ctx, src_file_mappings>>
anchorVars == <<str_anchors, const_anchors, anchors_list, anchors_files, verdicts>>
endVars == <<open_failed, success_reported>>

NoFilter == [none |-> TRUE, list |-> <<>>]
NoArtifact == [written |-> FALSE, anchors |-> <<>>, files |-> <<>>]

InitProgram ==
    /\ pc = "start"
    /\ ignore_archive = FALSE
    /\ finished_scan = FALSE
    /\ index = 1
    /\ file_list = NoFilter
    /\ loc_roots = <<>>
    /\ loc_root = <<>>
    /\ loc_pending = {}
    /\ archive_files = <<>>
    /\ src_functions_list = <<>>
    /\ src_functions_ctx = <<>>
    /\ src_file_mappings = <<>>
    /\ str_anchors = <<>>
    /\ const_anchors = <<>>
    /\ anchors_list = <<>>
    /\ anchors_files = {}
    /\ new_path = ""
    /\ exit_code = 0
    /\ artifact = NoArtifact
    /\ rounds = 0
    /\ prompts = 0
    /\ analyzed = <<>>
    /\ resolve_inputs = <<>>
    /\ file_pos = 1
    /\ verdicts = <<>>
    /\ open_failed = FALSE
    /\ success_reported = FALSE

Init ==
    /\ disas_name \in DisasNames
    /\ SCRIPT_PATH \in ScriptPaths
    /\ disk \in Disks
    /\ \E pl \in PairLists :
        /\ bin_dirs = [i \in 1..Len(pl) |-> pl[i][1]]
        /\ compiled_ars = [i \in 1..Len(pl) |-> pl[i][2]]
    /\ InitProgram

-----------------------------------------------------------------------------
(* locateFiles *)

\* line 101: the archive's members with the object suffix
ArchiveFilter(members) ==
    SelectSeq(members, LAMBDA x : EndsWith(x, <<".">> \o bin_suffix))

\* faulty variant: the suffix is matched without its dot
MatchingNoDot(files, fl, suffix) ==
    IF ~fl.none
    THEN files \cap Range(fl.list)
    ELSE {f \in files : EndsWith(f, suffix)}

\* lines 38-43: the names the inner for loop of one root runs over
Matching(files, fl, suffix) ==
    IF ~fl.none
    THEN files \cap Range(fl.list)
    ELSE {f \in files : EndsWith(f, <<".">> \o suffix)}

\* lines 91-101: the for loop enters pair `index` and calls locateFiles
BeginPair ==
    /\ pc = "scan"
    /\ UNCHANGED endVars
    /\ index <= Len(compiled_ars)
    /\ file_list' = IF ~ignore_archive
                    THEN [none |-> FALSE, list |-> ArchiveFilter(compiled_ars[index])]
                    ELSE NoFilter
    /\ loc_roots' = Walk(bin_dirs[index])
    /\ loc_root' = <<>>
    /\ loc_pending' = {}
    /\ archive_files' = <<>>
    /\ file_pos' = 1
    /\ pc' = "locate"
    /\ UNCHANGED <<inputVars, flagVars, storeVars, anchorVars, obsVars, exit_code, artifact>>

\* line 37: os.walk hands out the next root; lines 39 / 43 fix what it will yield
LocateDir ==
    /\ pc = "locate"
    /\ UNCHANGED endVars
    /\ loc_pending = {}
    /\ loc_roots # <<>>
    /\ loc_root' = Head(loc_roots)
    /\ loc_roots' = Tail(loc_roots)
    /\ loc_pending' = Matching(disk[Head(loc_roots)], file_list, bin_suffix)
    /\ UNCHANGED <<file_list, archive_files, file_pos, pc>>
    /\ UNCHANGED <<inputVars, flagVars, storeVars, anchorVars, obsVars, exit_code, artifact>>

\* lines 40-41 / 44: one file is yielded; on resumption its name leaves the filter
LocateYield ==
    /\ pc = "locate"
    /\ UNCHANGED endVars
    /\ \E compiled_file \in loc_pending :
        /\ archive_files' =
              Append(archive_files, <<JoinPath(loc_root, compiled_file), compiled_file>>)
        /\ file_list' = IF ~file_list.none
                        THEN [file_list EXCEPT !.list = ListRemove(@, compiled_file)]
                        ELSE file_list
        /\ loc_pending' = loc_pending \ {compiled_file}
    /\ UNCHANGED <<loc_roots, loc_root, file_pos, pc>>
    /\ UNCHANGED <<inputVars, flagVars, storeVars, anchorVars, obsVars, exit_code, artifact>>

\* the generator is exhausted: list(...) of line 101 returns
LocateDone ==
    /\ pc = "locate"
    /\ UNCHANGED endVars
    /\ loc_pending = {}
    /\ loc_roots = <<>>
    /\ pc' = "files"
    /\ UNCHANGED <<locVars>>
    /\ UNCHANGED <<inputVars, flagVars, storeVars, anchorVars, obsVars, exit_code, artifact>>

-----------------------------------------------------------------------------
(* The Context Merge Store *)

\* the contexts deserialised from one state file; `base` functions came before
NewContexts(file_name, functions, base) ==
    [i \in 1..Len(functions) |->
        [name |-> functions[i].name,
         index |-> base + i - 1,
         file |-> file_name,
         unknown_funcs |-> functions[i].unknown_funcs,
         unknown_fptrs |-> functions[i].unknown_fptrs,
         calls |-> functions[i].calls]]

\* src_file_mappings[file_name] = bucket, on an ordered mapping
SetBucket(mappings, file_name, bucket) ==
    IF \E i \in 1..Len(mappings) : mappings[i].file = file_name
    THEN [i \in 1..Len(mappings) |->
            IF mappings[i].file = file_name
            THEN [file |-> file_name, funcs |-> bucket]
            ELSE mappings[i]]
    ELSE Append(mappings, [file |-> file_name, funcs |-> bucket])

\* parseFileStats: registers the file's bucket and extends the library-wide lists
parseFileStats(store, file_name, functions) ==
    LET base == Len(store.list)
        new == NewContexts(file_name, functions, base)
    IN  [list |-> store.list \o [i \in 1..Len(new) |-> new[i].name],
         ctx |-> store.ctx \o new,
         mappings |-> SetBucket(store.mappings, file_name,
                                [i \in 1..Len(new) |-> base + i])]

-----------------------------------------------------------------------------
(* resolveUnknowns *)

\* FunctionContext.recordCall
recordCall(c, call) == [c EXCEPT !.calls = @ \cup {call}]

\* a for loop of recordCall over a set of resolved calls
RECURSIVE RecordAll(_, _)
RecordAll(c, resolved) ==
    IF resolved = {} THEN c
    ELSE LET call == CHOOSE x \in resolved : TRUE
         IN  RecordAll(recordCall(c, call), resolved \ {call})

\* faulty variant: line 63 is missing, the resolved calls stay in unknown_funcs
ResolveContextKeepsUnknown(c, known) ==
    LET c1 == RecordAll(c, c.unknown_funcs \cap known)
        c2 == RecordAll(c1, c1.unknown_fptrs \cap known)
    IN  [c2 EXCEPT !.unknown_fptrs = {}]

\* faulty variant: only the resolved function pointers leave unknown_fptrs
ResolveContextPartialClear(c, known) ==
    LET resolved == c.unknown_funcs \cap known
        c1 == [RecordAll(c, resolved) EXCEPT !.unknown_funcs = @ \ resolved]
        ptrs == c1.unknown_fptrs \cap known
        c2 == RecordAll(c1, ptrs)
    IN  [c2 EXCEPT !.unknown_fptrs = @ \ ptrs]

\* faulty variant: the first loop stops after one resolved call
ResolveContextOnePerPass(c, known) ==
    LET resolved == c.unknown_funcs \cap known
        one == IF resolved = {} THEN {} ELSE {CHOOSE x \in resolved : TRUE}
        c1 == [RecordAll(c, one) EXCEPT !.unknown_funcs = @ \ one]
        c2 == RecordAll(c1, c1.unknown_fptrs \cap known)
    IN  [c2 EXCEPT !.unknown_fptrs = {}]

\* faulty variant: the function pointers are cleared without being looked at
ResolveContextSkipsPointers(c, known) ==
    LET resolved == c.unknown_funcs \cap known
        c1 == [RecordAll(c, resolved) EXCEPT !.unknown_funcs = @ \ resolved]
    IN  [c1 EXCEPT !.unknown_fptrs = {}]

\* lines 61-66: the body of the loop for one FunctionContext
ResolveContext(c, known) ==
    LET resolved == c.unknown_funcs \cap known
        c1 == [RecordAll(c, resolved) EXCEPT !.unknown_funcs = @ \ resolved]
        c2 == RecordAll(c1, c1.unknown_fptrs \cap known)
    IN  [c2 EXCEPT !.unknown_fptrs = {}]

\* faulty variant: the contexts are handed back in reverse order
resolveUnknownsReversed(ctxs, functions_list) ==
    [i \in 1..Len(ctxs) |->
        ResolveContext(ctxs[Len(ctxs) + 1 - i], Range(functions_list))]

\* lines 56-66
resolveUnknowns(ctxs, functions_list) ==
    [i \in 1..Len(ctxs) |-> ResolveContext(ctxs[i], Range(functions_list))]

-----------------------------------------------------------------------------
(* analyzeLibrary *)

store == [list |-> src_functions_list, ctx |-> src_functions_ctx,
          mappings |-> src_file_mappings]

\* lines 77-89: the script-path check, then the while loop is entered
Start ==
    /\ pc = "start"
    /\ UNCHANGED endVars
    /\ IF disas_name = "IDA" /\ HasSpace(SCRIPT_PATH)
       THEN pc' = "returned" /\ rounds' = rounds
       ELSE pc' = "scan" /\ rounds' = rounds + 1
    /\ UNCHANGED <<prompts, analyzed, resolve_inputs>>
    /\ UNCHANGED <<inputVars, flagVars, locVars, storeVars, anchorVars, exit_code, artifact>>

\* faulty variant: the failed open only ends analyzeLibrary
OnOpenFailureReturns == [pc |-> "returned", exit_code |-> 0]

\* lines 123-128: the except branch ends the process with exit(1)
OnOpenFailure == [pc |-> "exited", exit_code |-> 1]

\* lines 109-133: one iteration of the loop over the located files
AnalyzeNext ==
    /\ pc = "files"
    /\ file_pos <= Len(archive_files)
    /\ LET full_file_path == archive_files[file_pos][1]
       IN  IF disas_name = "IDA" /\ HasSpace(full_file_path)
           THEN /\ pc' = "returned"
                /\ UNCHANGED <<storeVars, analyzed, exit_code, file_pos, open_failed>>
           ELSE \E state_file_opens \in BOOLEAN :
                /\ analyzed' = Append(analyzed, full_file_path)
                /\ open_failed' = ~state_file_opens
                /\ IF ~state_file_opens
                   THEN /\ pc' = OnOpenFailure.pc
                        /\ exit_code' = OnOpenFailure.exit_code
                        /\ UNCHANGED <<storeVars, file_pos>>
                   ELSE LET s == parseFileStats(store, full_file_path,
                                                FileFuncs(full_file_path))
                        IN  /\ src_functions_list' = s.list
                            /\ src_functions_ctx' = s.ctx
                            /\ src_file_mappings' = s.mappings
                            /\ file_pos' = file_pos + 1
                            /\ UNCHANGED <<pc, exit_code>>
    /\ UNCHANGED <<file_list, loc_roots, loc_root, loc_pending, archive_files>>
    /\ UNCHANGED <<rounds, prompts, resolve_inputs, success_reported>>
    /\ UNCHANGED <<inputVars, flagVars, anchorVars, artifact>>

\* faulty variant: the resolution of line 141 is inside the for loop
AfterPairResolves(next_index, pairs) == "resolve"

\* line 91: the for loop takes the next pair, or ends and line 139 is reached
AfterPair(next_index, pairs) == IF next_index > pairs THEN "resolve" ELSE "scan"

\* lines 134-137 and 91: the pair is done; the for loop goes on or ends
EndPair ==
    /\ pc = "files"
    /\ UNCHANGED endVars
    /\ file_pos > Len(archive_files)
    /\ index' = index + 1
    /\ pc' = AfterPair(index + 1, Len(compiled_ars))
    /\ UNCHANGED <<ignore_archive, finished_scan, new_path>>
    /\ UNCHANGED <<inputVars, locVars, storeVars, anchorVars, obsVars, exit_code, artifact>>

\* lines 139-141
Resolve ==
    /\ pc = "resolve"
    /\ UNCHANGED endVars
    /\ resolve_inputs' = Append(resolve_inputs, src_functions_ctx)
    /\ src_functions_ctx' = resolveUnknowns(src_functions_ctx, src_functions_list)
    /\ pc' = "check"
    /\ UNCHANGED <<src_functions_list, src_file_mappings, rounds, prompts, analyzed>>
    /\ UNCHANGED <<inputVars, flagVars, locVars, anchorVars, exit_code, artifact>>

\* faulty variant: the scan counts as empty when no function was loaded
NoFilesNoFunctions(mappings) ==
    \A i \in 1..Len(mappings) : Len(mappings[i].funcs) = 0

\* line 144: `len(src_file_mappings) == 0`
NoFiles(mappings) == Len(mappings) = 0

\* lines 143-146 and 154-155
CheckFiles ==
    /\ pc = "check"
    /\ UNCHANGED endVars
    /\ IF NoFiles(src_file_mappings)
       THEN pc' = "prompt" /\ UNCHANGED finished_scan
       ELSE finished_scan' = TRUE /\ pc' = "prune"
    /\ UNCHANGED <<ignore_archive, index, new_path>>
    /\ UNCHANGED <<inputVars, locVars, storeVars, anchorVars, obsVars, exit_code, artifact>>

\* faulty variant: only an explicit "n" ends the run
DeclinesOnlyN(answer) == answer = "n"

\* line 148: `new_path != 'y'`
Declines(answer) == answer # "y"

\* lines 147-153: the operator is asked; exit(2) or another round of the while loop
Prompt ==
    /\ pc = "prompt"
    /\ UNCHANGED endVars
    /\ \E typed \in Answers :
        /\ new_path' = Lower(typed)
        /\ prompts' = prompts + 1
        /\ IF Declines(Lower(typed))
           THEN /\ pc' = "exited"
                /\ exit_code' = 2
                /\ UNCHANGED <<ignore_archive, index, rounds>>
           ELSE /\ rounds < MaxRounds
                /\ ignore_archive' = TRUE
                /\ index' = 1
                /\ rounds' = rounds + 1
                /\ pc' = "scan"
                /\ UNCHANGED exit_code
    /\ UNCHANGED <<finished_scan, analyzed, resolve_inputs>>
    /\ UNCHANGED <<inputVars, locVars, storeVars, anchorVars, artifact>>

\* faulty variant: nothing is popped
PruneNothing(mappings) == mappings

\* lines 159-160: every file whose bucket is empty is popped
PruneEmpty(mappings) == SelectSeq(mappings, LAMBDA e : Len(e.funcs) # 0)

\* lines 157-160: the buckets without functions are popped
Prune ==
    /\ pc = "prune"
    /\ UNCHANGED endVars
    /\ src_file_mappings' = PruneEmpty(src_file_mappings)
    /\ pc' = "anchors"
    /\ UNCHANGED <<src_functions_list, src_functions_ctx>>
    /\ UNCHANGED <<inputVars, flagVars, locVars, anchorVars, obsVars, exit_code, artifact>>

\* lines 170-178: the loop over the contexts from position i on; v[i] is what
\* anchor.isAnchor answers for context i
RECURSIVE AnchorLoop(_, _, _, _)
AnchorLoop(ctxs, v, i, acc) ==
    IF i > Len(ctxs) THEN acc
    ELSE IF v[i] = "none" THEN AnchorLoop(ctxs, v, i + 1, acc)
    ELSE AnchorLoop(ctxs, v, i + 1,
            [str |-> IF v[i] = "str" THEN Append(acc.str, i - 1) ELSE acc.str,
             const |-> IF v[i] = "str" THEN acc.const ELSE Append(acc.const, i - 1),
             files |-> acc.files \cup {ctxs[i].file}])

\* faulty variant: the constants come first
ConcatAnchorsConstFirst(strs, consts) == consts \o strs

\* line 182
ConcatAnchors(strs, consts) == strs \o consts

\* the functions anchor.isAnchor is asked about: the heuristic is a function of the
\* context it is given, so two contexts of one function of one file get one answer
FunctionsOf(ctxs) == {<<ctxs[i].file, ctxs[i].name>> : i \in 1..Len(ctxs)}

\* lines 162-182
SelectAnchors ==
    /\ pc = "anchors"
    /\ UNCHANGED endVars
    /\ \E isAnchor \in [FunctionsOf(src_functions_ctx) -> Verdicts] :
        LET v == [i \in 1..Len(src_functions_ctx) |->
                     isAnchor[<<src_functions_ctx[i].file, src_functions_ctx[i].name>>]]
            acc == AnchorLoop(src_functions_ctx, v, 1,
                              [str |-> <<>>, const |-> <<>>, files |-> {}])
        IN  /\ verdicts' = v
            /\ str_anchors' = acc.str
            /\ const_anchors' = acc.const
            /\ anchors_files' = acc.files
            /\ anchors_list' = ConcatAnchors(acc.str, acc.const)
    /\ pc' = "finish"
    /\ UNCHANGED <<inputVars, flagVars, locVars, storeVars, obsVars, exit_code, artifact>>

-----------------------------------------------------------------------------
(* The Serializer *)

\* str.split(os.path.sep); cur is the component being read
RECURSIVE SplitSep(_, _)
SplitSep(s, cur) ==
    IF s = <<>> THEN <<cur>>
    ELSE IF Head(s) = "/" THEN <<cur>> \o SplitSep(Tail(s), <<>>)
    ELSE SplitSep(Tail(s), Append(cur, Head(s)))

\* len(os.path.sep.join(components))
RECURSIVE JoinLen(_)
JoinLen(components) ==
    IF components = <<>> THEN 0
    ELSE IF Len(components) = 1 THEN Len(components[1])
    ELSE Len(Head(components)) + 1 + JoinLen(Tail(components))

\* lines 214-216: the value `index` (0-based) is left with by the loop over xrange(n)
RECURSIVE PrefixLoop(_, _, _, _)
PrefixLoop(base_value, comparison_value, i, n) ==
    IF i >= n THEN n - 1
    ELSE IF base_value[i + 1] # comparison_value[i + 1] THEN i
    ELSE PrefixLoop(base_value, comparison_value, i + 1, n)

\* lines 211-219
CommonPathLen(mappings, dirs) ==
    IF Len(mappings) > 1
    THEN LET base_value == SplitSep(mappings[1].file, <<>>)
             comparison_value == SplitSep(mappings[Len(mappings)].file, <<>>)
             n == IF Len(comparison_value) < Len(base_value)
                  THEN Len(comparison_value) ELSE Len(base_value)
             last == PrefixLoop(base_value, comparison_value, 0, n)
         IN  JoinLen(SubSeq(base_value, 1, last)) + 1
    ELSE Len(dirs[1]) + 1

\* s[n:]
Slice(s, n) == IF n >= Len(s) THEN <<>> ELSE SubSeq(s, n + 1, Len(s))

\* lines 221-222 from position i on: the ordered dictionary file_dict; a context is
\* serialised as its name
RECURSIVE FileDict(_, _, _, _, _)
FileDict(mappings, ctxs, common_path_len, i, file_dict) ==
    IF i > Len(mappings) THEN file_dict
    ELSE FileDict(mappings, ctxs, common_path_len, i + 1,
            SetBucket(file_dict, Slice(mappings[i].file, common_path_len),
                      [k \in 1..Len(mappings[i].funcs) |->
                          ctxs[mappings[i].funcs[k]].name]))

\* faulty variant: the check of line 192 is missing
NoAnchorsNever(anchors) == FALSE

\* line 192: `len(anchors_list) == 0`
NoAnchors(anchors) == Len(anchors) = 0

\* line 185: `if len(src_file_mappings)`
FilesCheckFails(mappings) == Len(mappings) # 0

\* lines 184-233: the two checks, then the artifact is built and written
Finish ==
    /\ pc = "finish"
    /\ UNCHANGED endVars
    /\ IF FilesCheckFails(src_file_mappings)
       THEN pc' = "exited" /\ exit_code' = 2 /\ UNCHANGED artifact
       ELSE IF NoAnchors(anchors_list)
       THEN pc' = "exited" /\ exit_code' = 2 /\ UNCHANGED artifact
       ELSE /\ artifact' =
                  [written |-> TRUE,
                   anchors |-> anchors_list,
                   files |-> FileDict(src_file_mappings, src_functions_ctx,
                                      CommonPathLen(src_file_mappings, bin_dirs),
                                      1, <<>>)]
            /\ pc' = "done"
            /\ UNCHANGED exit_code
    /\ UNCHANGED <<inputVars, flagVars, locVars, storeVars, anchorVars, obsVars>>

\* lines 281-284: analyzeLibrary has returned to main, which logs the success
MainFinished ==
    /\ pc \in {"returned", "done"}
    /\ ~success_reported
    /\ success_reported' = TRUE
    /\ UNCHANGED <<inputVars, flagVars, locVars, storeVars, anchorVars, obsVars>>
    /\ UNCHANGED <<pc, exit_code, artifact, open_failed>>

Next ==
    \/ Start
    \/ BeginPair
    \/ LocateDir
    \/ LocateYield
    \/ LocateDone
    \/ AnalyzeNext
    \/ EndPair
    \/ Resolve
    \/ CheckFiles
    \/ Prompt
    \/ Prune
    \/ SelectAnchors
    \/ Finish
    \/ MainFinished

Spec == Init /\ [][Next]_vars

-----------------------------------------------------------------------------
(* resolveUnknowns on its own: any library, resolved several times in a row *)

\* the identities the contexts of such a library refer to
Targets == {"foo", "bar"}

\* the identity of the context at each position of the library
NameAt(i) == IF i = 1 THEN "foo" ELSE IF i = 2 THEN "bar" ELSE "baz"

\* the libraries of n contexts
LibrariesOf(n) ==
    {[i \in 1..n |->
        [name |-> NameAt(i), index |-> i - 1, file |-> JoinPath(D1, aO),
         unknown_funcs |-> r[i][1], unknown_fptrs |-> r[i][2], calls |-> r[i][3]]] :
     r \in [1..n -> (SUBSET Targets) \X (SUBSET Targets) \X (SUBSET Targets)]}

InitResolve ==
    /\ disas_name = "radare"
    /\ SCRIPT_PATH = <<"/", "k">>
    /\ disk = [d \in Dirs |-> {aO}]
    /\ bin_dirs = <<D1>>
    /\ compiled_ars = <<<<aO>>>>
    /\ \E n \in 1..MaxCtx :
        /\ src_functions_ctx \in LibrariesOf(n)
        /\ src_functions_list = [i \in 1..n |-> NameAt(i)]
        /\ src_file_mappings = <<[file |-> JoinPath(D1, aO), funcs |-> [i \in 1..n |-> i]]>>
    /\ pc = "library"
    /\ ignore_archive = FALSE
    /\ finished_scan = FALSE
    /\ index = 1
    /\ file_list = NoFilter
    /\ loc_roots = <<>>
    /\ loc_root = <<>>
    /\ loc_pending = {}
    /\ archive_files = <<>>
    /\ str_anchors = <<>>
    /\ const_anchors = <<>>
    /\ anchors_list = <<>>
    /\ anchors_files = {}
    /\ new_path = ""
    /\ exit_code = 0
    /\ artifact = NoArtifact
    /\ rounds = 0
    /\ prompts = 0
    /\ analyzed = <<>>
    /\ resolve_inputs = <<>>
    /\ file_pos = 1
    /\ verdicts = <<>>
    /\ open_failed = FALSE
    /\ success_reported = FALSE

\* lines 56-66, called once more on the library
ResolveAgain ==
    /\ pc = "library"
    /\ UNCHANGED endVars
    /\ Len(resolve_inputs) < MaxResolves
    /\ resolve_inputs' = Append(resolve_inputs, src_functions_ctx)
    /\ src_functions_ctx' = resolveUnknowns(src_functions_ctx, src_functions_list)
    /\ UNCHANGED <<src_functions_list, src_file_mappings, rounds, prompts, analyzed, pc>>
    /\ UNCHANGED <<inputVars, flagVars, locVars, anchorVars, exit_code, artifact>>

NextResolve == ResolveAgain

SpecResolve == InitResolve /\ [][NextResolve]_vars

-----------------------------------------------------------------------------
(* Properties *)

Terminal == {"done", "exited", "returned"}

\* the known function identities
Known == Range(src_functions_list)

\* the library resolveUnknowns was last called on
CtxBefore == resolve_inputs[Len(resolve_inputs)]

\* the scan loop ended, pruning and anchor selection have run
AnchorsSelected == finished_scan /\ pc \in {"finish", "exited", "done"}

\* C1: a run whose pruned library holds a file and whose anchor list holds an
\* anchor ends in DONE with the artifact written, never in FAILED (exit 2).
C1_SuccessPath ==
    (AnchorsSelected /\ pc \in Terminal
        /\ Len(src_file_mappings) > 0 /\ Len(anchors_list) > 0)
    => (pc = "done" /\ artifact.written /\ exit_code = 0)

\* C2: a run whose pruned library is empty, or whose anchor list is empty, ends in
\* FAILED with exit condition 2 and without the artifact; the artifact is written
\* only for a non-empty pruned library with a non-empty anchor list.
C2_EmptinessErrors ==
    /\ (AnchorsSelected /\ pc \in Terminal
           /\ (Len(src_file_mappings) = 0 \/ Len(anchors_list) = 0))
       => (pc = "exited" /\ exit_code = 2 /\ ~artifact.written)
    /\ artifact.written => (Len(src_file_mappings) > 0 /\ Len(anchors_list) > 0)

\* C2 witness: every located file was an empty compiland, the run failed with 2
C2_Witness ==
    /\ pc = "exited"
    /\ finished_scan
    /\ analyzed # <<>>
    /\ src_file_mappings = <<>>
    /\ exit_code = 2

\* C3 as stated: after an archive-constrained scan that loaded no function, the
\* operator is asked before pruning.
C3_AsksWhenNoFunctions ==
    [][(pc = "check" /\ ~ignore_archive /\ Len(src_functions_list) = 0)
        => pc' = "prompt"]_vars

\* C3 amended: after an archive-constrained scan the operator is asked, before
\* pruning and anchor selection, exactly when no file was loaded; files that were
\* loaded without functions count, and the run goes on to pruning unasked.
C3_AsksWhenNoFiles ==
    [][(pc = "check" /\ ~ignore_archive)
        => /\ Len(src_file_mappings) = 0
              => (pc' = "prompt" /\ prompts' = prompts
                    /\ UNCHANGED <<src_file_mappings, anchors_list, verdicts>>)
           /\ Len(src_file_mappings) > 0
              => (pc' = "prune" /\ prompts' = 0)]_vars

\* C3 witness: the constrained scan of every pair found no file, the operator is
\* about to be asked
C3_Witness ==
    /\ pc = "prompt"
    /\ ~ignore_archive
    /\ prompts = 0
    /\ index > Len(compiled_ars)
    /\ src_file_mappings = <<>>

\* C4: an answer other than yes ends the run at once with exit condition 2: no
\* further scan round, no file analyzed, no artifact, and nothing happens after.
C4_Declined ==
    [][/\ (pc = "prompt" /\ new_path' # "y")
          => /\ pc' = "exited"
             /\ exit_code' = 2
             /\ rounds' = rounds
             /\ analyzed' = analyzed
             /\ ignore_archive' = ignore_archive
             /\ ~artifact'.written
       /\ pc = "exited" => UNCHANGED vars]_vars

\* C4 witness: the operator answered "n" to the first prompt and the run failed
C4_Witness ==
    /\ pc = "exited"
    /\ prompts = 1
    /\ new_path = "n"
    /\ exit_code = 2

\* C5: the operator is asked at most once per run and the scan loop runs at most
\* twice.
C5_AsksOnce == prompts <= 1 /\ rounds <= 2

\* the names locateFiles has yielded in the current call
YieldedNames == [i \in 1..Len(archive_files) |-> archive_files[i][2]]

\* the filter the current call of locateFiles was given
FilterGiven == ArchiveFilter(compiled_ars[index])

\* the number of roots of the current walk that hold a file of that name
Holders(name) ==
    Cardinality({i \in 1..Len(Walk(bin_dirs[index])) :
                    name \in disk[Walk(bin_dirs[index])[i]]})

InFilteredCall == pc \in {"locate", "files"} /\ ~file_list.none

\* C9: the anchor list holds exactly the functions the heuristic accepted, every
\* string anchor before every constant anchor, each class in ascending index.
C9_AnchorOrder ==
    AnchorsSelected =>
        /\ \A p, q \in 1..Len(anchors_list) :
              p < q =>
                 /\ ~(verdicts[anchors_list[p] + 1] = "const"
                        /\ verdicts[anchors_list[q] + 1] = "str")
                 /\ verdicts[anchors_list[p] + 1] = verdicts[anchors_list[q] + 1]
                       => anchors_list[p] < anchors_list[q]
        /\ Range(anchors_list) = {i - 1 : i \in {j \in 1..Len(verdicts) : verdicts[j] # "none"}}
        /\ verdicts = <<"const", "str", "const", "str">> => anchors_list = <<1, 3, 0, 2>>

\* C9 witness: candidates found in the order const, str, const, str
C9_Witness ==
    /\ AnchorsSelected
    /\ verdicts = <<"const", "str", "const", "str">>

\* C10 as stated: with a filter, only names of the filter are yielded, each at
\* most once, and once the walk is over the filter holds exactly the names found
\* in no directory.
C10_FilterOnce ==
    InFilteredCall =>
        /\ Range(YieldedNames) \subseteq Range(FilterGiven)
        /\ loc_pending \subseteq Range(file_list.list)
        /\ \A n \in Range(FilterGiven) : Count(YieldedNames, n) <= 1
        /\ pc = "files" =>
              Range(file_list.list) = {n \in Range(FilterGiven) : Holders(n) = 0}

\* C10 amended: with a filter, only names that are in the filter at that moment
\* are yielded, each at most as often as the filter lists it, and once the walk is
\* over the filter holds each name as often as it was listed less the times it was
\* yielded (once per directory holding it, up to the number of listings).
C10_FilterCounted ==
    InFilteredCall =>
        /\ Range(YieldedNames) \subseteq Range(FilterGiven)
        /\ loc_pending \subseteq Range(file_list.list)
        /\ \A n \in Range(FilterGiven) :
              /\ Count(YieldedNames, n) <= Count(FilterGiven, n)
              /\ Count(file_list.list, n) = Count(FilterGiven, n) - Count(YieldedNames, n)
              /\ pc = "files" =>
                    Count(YieldedNames, n) =
                       IF Holders(n) < Count(FilterGiven, n)
                       THEN Holders(n) ELSE Count(FilterGiven, n)

\* C10 witness: a filter listing one name twice, a file of that name in two
\* directories, both yielded, the filter left empty
C10_Witness ==
    /\ pc = "files"
    /\ ~file_list.none
    /\ Len(archive_files) = 2
    /\ archive_files[1][2] = archive_files[2][2]
    /\ file_list.list = <<>>

\* C6: after resolution no context's unknown-call set holds a known identity.
C6_Closure ==
    Len(resolve_inputs) >= 1 =>
        \A i \in 1..Len(src_functions_ctx) :
            src_functions_ctx[i].unknown_funcs \cap Known = {}

\* C6 witness: a context had a known and an unknown identity among its unknown calls
C6_Witness ==
    /\ Len(resolve_inputs) = 1
    /\ \E i \in 1..Len(src_functions_ctx) :
        /\ resolve_inputs[1][i].unknown_funcs \cap Known # {}
        /\ resolve_inputs[1][i].unknown_funcs \ Known # {}

\* C7: after resolution every unknown-function-pointer set is empty, and a pointer
\* that was not a known identity has not been recorded as a call.
C7_TotalClear ==
    Len(resolve_inputs) >= 1 =>
        \A i \in 1..Len(src_functions_ctx) :
            /\ src_functions_ctx[i].unknown_fptrs = {}
            /\ \A f \in CtxBefore[i].unknown_fptrs \ Known :
                  f \in src_functions_ctx[i].calls => f \in CtxBefore[i].calls

\* C7 witness: some pointers of a context were known identities and some were not
C7_Witness ==
    /\ Len(resolve_inputs) = 1
    /\ \E i \in 1..Len(src_functions_ctx) :
        /\ resolve_inputs[1][i].unknown_fptrs \cap Known # {}
        /\ resolve_inputs[1][i].unknown_fptrs \ Known # {}
        /\ src_functions_ctx[i].unknown_fptrs = {}

\* C8: a resolution run right after another changes no context.
C8_Idempotent ==
    Len(resolve_inputs) >= 2 => src_functions_ctx = CtxBefore

\* C8 witness: the first run changed the library, the second has run
C8_Witness ==
    /\ Len(resolve_inputs) = 2
    /\ resolve_inputs[1] # resolve_inputs[2]
    /\ src_functions_ctx = resolve_inputs[2]

\* the files of the buckets
MappingFiles(mappings) == {mappings[i].file : i \in 1..Len(mappings)}

\* the buckets are those of `before` that hold a function, unchanged and in order
IsPruningOf(after, before) ==
    /\ \A i \in 1..Len(after) : Len(after[i].funcs) > 0
    /\ \A i \in 1..Len(before) :
          Len(before[i].funcs) > 0 => \E j \in 1..Len(after) : after[j] = before[i]
    /\ \A j \in 1..Len(after) : \E i \in 1..Len(before) : before[i] = after[j]
    /\ \A j, k \in 1..Len(after) :
          j < k => \E i, l \in 1..Len(before) :
                      i < l /\ before[i] = after[j] /\ before[l] = after[k]

\* C11: the prune step removes exactly the buckets without functions and keeps the
\* others unchanged; from then on no bucket, and no entry of a written "Files"
\* map, is empty.
C11_Pruning ==
    [][/\ pc = "prune" => IsPruningOf(src_file_mappings', src_file_mappings)
       /\ pc' \in {"anchors", "finish", "done"}
            => \A i \in 1..Len(src_file_mappings') : Len(src_file_mappings'[i].funcs) > 0
       /\ artifact'.written
            => \A i \in 1..Len(artifact'.files) : Len(artifact'.files[i].funcs) > 0]_vars

\* C11 witness: the empty compiland /l/b.o was loaded and pruned, another file stays
C11_Witness ==
    /\ pc = "anchors"
    /\ \E i \in 1..Len(analyzed) : analyzed[i] = JoinPath(D1, bO)
    /\ JoinPath(D1, bO) \notin MappingFiles(src_file_mappings)
    /\ Len(src_file_mappings) >= 1

C13_ExactEffect ==
    Len(resolve_inputs) >= 1 =>
        \A i \in 1..Len(src_functions_ctx) :
            /\ src_functions_ctx[i].calls =
                  CtxBefore[i].calls
                     \cup {f \in CtxBefore[i].unknown_funcs \cup CtxBefore[i].unknown_fptrs :
                              f \in Known}
            /\ src_functions_ctx[i].unknown_funcs =
                  {f \in CtxBefore[i].unknown_funcs : f \notin Known}

\* C13 witness: a context with a known and an unknown target among its unknown
\* calls and a known target among its pointers that was no recorded call before
C13_Witness ==
    /\ Len(resolve_inputs) = 1
    /\ \E i \in 1..Len(src_functions_ctx) :
        /\ resolve_inputs[1][i].unknown_funcs \cap Known # {}
        /\ resolve_inputs[1][i].unknown_funcs \ Known # {}
        /\ \E f \in resolve_inputs[1][i].unknown_fptrs \cap Known :
              /\ f \notin resolve_inputs[1][i].calls
              /\ f \in src_functions_ctx[i].calls

\* resolveUnknowns is entered only when the loop over the pairs has ended and the
\* files of the last pair are all loaded, and never after the scan loop ended
ResolvesAfterLoading ==
    Len(resolve_inputs') # Len(resolve_inputs) =>
        /\ index > Len(compiled_ars)
        /\ file_pos > Len(archive_files)
        /\ ~finished_scan

\* pruning follows the resolution, the anchors follow pruning, the artifact
\* follows the anchors
StagesInOrder ==
    /\ pc \in {"prune", "anchors", "finish", "done"}
          => finished_scan /\ Len(resolve_inputs) >= 1
    /\ verdicts # <<>>
          => /\ finished_scan
             /\ \A i \in 1..Len(src_file_mappings) : Len(src_file_mappings[i].funcs) > 0
    /\ (anchors_list # <<>> \/ artifact.written) => AnchorsSelected

\* C14 as stated: the stages come in order and resolveUnknowns runs once per run.
C14_StageOrder ==
    /\ StagesInOrder
    /\ Len(resolve_inputs) <= 1

\* C14: the stages come in order, resolveUnknowns runs once per scan round, after
\* the last file of the last pair, and every run of it but the last is given an
\* empty library.
C14_StageOrderPerRound ==
    /\ []StagesInOrder
    /\ [][ResolvesAfterLoading]_vars
    /\ [](/\ Len(resolve_inputs) \in {rounds - 1, rounds}
          /\ pc \in {"check", "prompt", "prune", "anchors", "finish", "done"}
                => Len(resolve_inputs) = rounds
          /\ \A k \in 1..(Len(resolve_inputs) - 1) : resolve_inputs[k] = <<>>)

\* C14 witness: the archive round loaded nothing, the operator accepted, and the
\* second round's resolution was run on two files' functions before the anchors
C14_Witness ==
    /\ AnchorsSelected
    /\ Len(resolve_inputs) = 2
    /\ Len(analyzed) >= 2
    /\ Len(resolve_inputs[2]) >= 2
    /\ verdicts # <<>>

\* the files under the root of the current walk, at any depth, whose name ends
\* with a dot and the suffix "o", each with its name
ObjectFilesUnderRoot ==
    UNION {{<<JoinPath(Walk(bin_dirs[index])[i], f), f>> :
               f \in {g \in disk[Walk(bin_dirs[index])[i]] :
                         /\ Len(g) >= 2
                         /\ g[Len(g) - 1] = "."
                         /\ g[Len(g)] = "o"}} :
           i \in 1..Len(Walk(bin_dirs[index]))}

\* C15: called without a filter, locateFiles yields every file under the root
\* whose name ends with "." + suffix, each exactly once, and no other file.
C15_Unfiltered ==
    /\ (pc = "locate" /\ file_list.none) => Range(archive_files) \subseteq ObjectFilesUnderRoot
    /\ (pc = "files" /\ file_list.none) =>
          /\ Range(archive_files) = ObjectFilesUnderRoot
          /\ Len(archive_files) = Cardinality(ObjectFilesUnderRoot)

\* C15 witness: an unfiltered walk of /l ended with files of /l and of its
\* sub-directory, next to r.x and co which it left out
C15_Witness ==
    /\ pc = "files"
    /\ file_list.none
    /\ bin_dirs[index] = D1
    /\ Len(archive_files) >= 3
    /\ \E i \in 1..Len(archive_files) : archive_files[i][1] = JoinPath(D2, aO)
    /\ {rX, cO} \subseteq disk[D1]

\* the number of functions the state files of `paths` hold
RECURSIVE FunctionsLoaded(_)
FunctionsLoaded(paths) ==
    IF paths = <<>> THEN 0
    ELSE Len(FileFuncs(Head(paths))) + FunctionsLoaded(Tail(paths))

\* C16: when the state file of an analyzed file cannot be opened the process
\* ends at once with exit code 1: the file adds nothing to the store, no later
\* file is analyzed, and the round sees no resolution, anchors or artifact.
C16_MissingStateFile ==
    /\ [](open_failed =>
            /\ pc = "exited"
            /\ exit_code = 1
            /\ analyzed[Len(analyzed)] = archive_files[file_pos][1]
            /\ Len(src_functions_ctx)
                  = FunctionsLoaded(SubSeq(analyzed, 1, Len(analyzed) - 1))
            /\ Len(src_functions_list) = Len(src_functions_ctx)
            /\ Len(resolve_inputs) = rounds - 1
            /\ ~finished_scan
            /\ verdicts = <<>> /\ anchors_list = <<>>
            /\ ~artifact.written
            /\ ~success_reported)
    /\ [][~open_failed]_vars

\* C16 witness: the state file of the second analyzed file is missing, with a
\* located file still waiting
C16_Witness ==
    /\ open_failed
    /\ Len(analyzed) = 2
    /\ Len(src_functions_ctx) >= 1
    /\ file_pos < Len(archive_files)

\* C17: with IDA and a space in the script path or in a located file's path,
\* analyzeFile is not called on that file, nothing is analyzed, resolved or
\* written afterwards, and the run is not reported as finished successfully.
C17_PathErrorsFatal ==
    /\ disas_name = "IDA" => \A i \in 1..Len(analyzed) : ~HasSpace(analyzed[i])
    /\ pc = "returned" =>
          /\ disas_name = "IDA"
          /\ HasSpace(SCRIPT_PATH) \/ HasSpace(archive_files[file_pos][1])
          /\ HasSpace(SCRIPT_PATH) => analyzed = <<>> /\ rounds = 0
          /\ Len(resolve_inputs) = IF rounds = 0 THEN 0 ELSE rounds - 1
          /\ ~finished_scan
          /\ verdicts = <<>> /\ anchors_list = <<>>
          /\ ~artifact.written
          /\ ~success_reported

\* the identity of a context: its name, its index and its file
Identity(c) == <<c.name, c.index, c.file>>

\* C18: resolveUnknowns leaves the known names, the file buckets and the number,
\* order and identities of the contexts unchanged; the anchor selection leaves
\* the whole store unchanged.
C18_IndexReadOnly ==
    [][/\ pc = "resolve" =>
            /\ UNCHANGED <<src_functions_list, src_file_mappings>>
            /\ Len(src_functions_ctx') = Len(src_functions_ctx)
            /\ \A i \in 1..Len(src_functions_ctx) :
                  Identity(src_functions_ctx'[i]) = Identity(src_functions_ctx[i])
       /\ pc = "anchors" => UNCHANGED storeVars]_vars

\* C18 witness: the resolution changed contexts of a library of several
\* functions, and the anchor selection then accepted one of them
C18_Witness ==
    /\ AnchorsSelected
    /\ Len(src_functions_ctx) >= 2
    /\ CtxBefore # src_functions_ctx
    /\ Len(CtxBefore) = Len(src_functions_ctx)
    /\ anchors_list # <<>>

\* C19: no compiled file is analyzed twice in a run, over all pairs and both
\* passes, and no function is added to the global function list twice.
C19_AnalyzedOnce ==
    /\ \A i, j \in 1..Len(analyzed) : i < j => analyzed[i] # analyzed[j]
    /\ \A i, j \in 1..Len(src_functions_list) :
          i < j => src_functions_list[i] # src_functions_list[j]

\* the positions of the contexts the remaining buckets hold
Serialized(mappings) ==
    UNION {Range(mappings[k].funcs) : k \in 1..Len(mappings)}

====
